---- MODULE Spec2Model ----
(***************************************************************************)
(* CBWebSocketServer: a dual-protocol (WS / WSS) relay server.             *)
(*                                                                         *)
(* The model follows server.js (startup, listeners, per-connection         *)
(* handlers, graceful shutdown), src/heartbeat.js (the heartbeat manager)  *)
(* and src/broadcast.js (the relay).  One time unit is one second.  Every  *)
(* handler of the single event loop is one atomic action.                  *)
(***************************************************************************)
EXTENDS Integers, Sequences, FiniteSets, TLC

\* ------------------------------------------------------------ bounds
MaxConns == 3       \* connections that ever connect (relay)
MaxTimedConns == 2  \* connections that ever connect where the clock runs
MaxTime == 5        \* heartbeat runs: the clock stops advancing here
MaxUptime == 2      \* lifecycle runs: the signal comes no later than this
MaxInterval == 2    \* heartbeat.interval is drawn from 1..MaxInterval
MaxTimeout == 2     \* heartbeat.timeout is drawn from 1..MaxTimeout
MaxMessages == 2    \* ordering runs: messages whose frames are followed on the wire

\* setTimeout(..., 5000) of gracefulShutdown, in seconds
GracePeriod == 5

Conns == 1..MaxConns
Groups == {"WS", "WSS"}
NoTime == 0 - 1
NoCode == 0 - 1

VARIABLES
  config,       \* what loadConfig() returns: ws, wss, heartbeat
  tlsFiles,     \* the certificate/key files: "ok", "missing", "unreadable"
  pc,           \* module-level code: "load", "ws", "wss", "running"; "exited" after
                \* process.exit, "ended" when the event loop ran empty
  exitCode,     \* exit code of the process, NoCode while it lives
  servers,      \* server.js `servers`: the group labels pushed, in order
  httpServers,  \* per group: the listeners startListeners() returned
  wsState,      \* per group: state of its WebSocket.Server
  clients,      \* per group: wsServer.clients
  grp,          \* per connection: the group that accepted it
  readyState,   \* per connection: socket.readyState ("NONE" before connecting)
  destroyed,    \* connections terminate() destroyed, their 'close' event queued
  clientMap,    \* per group: heartbeat registry, socket -> [isAlive, lastPingSentAt]
  timer,        \* per group: the setInterval handle is set
  nextTick,     \* per group: when the interval timer fires next
  now,          \* Date.now(), in seconds
  signalAt,     \* when gracefulShutdown ran first, NoTime before
  deadline,     \* when the forced-exit timer fires, NoTime while unarmed
  stopped,      \* groups whose hbMgr.stop() has run
  pendingCount, \* pendingCount of the first gracefulShutdown
  httpPending,  \* per group: httpPending of its first wsServer.close callback
  lastAck,      \* per connection: time of registration or of its last acknowledgment
  evictedAt,    \* per connection: when the sweep evicted it, NoTime otherwise
  acks,         \* per connection: acknowledgments since the last tick (0, 1, 2 = many)
  last,         \* what the running message handler sent and logged
  arrivals,     \* ordering runs: number of message handlers that ran and returned
  wire          \* ordering runs: per connection, the frames sent to it, in order

vars == <<config, tlsFiles, pc, exitCode, servers, httpServers, wsState, clients,
          grp, readyState, destroyed, clientMap, timer, nextTick, now, signalAt, deadline,
          stopped, pendingCount, httpPending, lastAck, evictedAt, acks, last,
          arrivals, wire>>

procVars == <<pc, exitCode>>
listenVars == <<servers, httpServers, wsState>>
connVars == <<clients, grp, readyState, destroyed>>
hbVars == <<clientMap, timer, nextTick>>
downVars == <<signalAt, deadline, stopped, pendingCount, httpPending>>
obsVars == <<lastAck, evictedAt, acks>>
cfgVars == <<config, tlsFiles>>
wireVars == <<arrivals, wire>>

\* ------------------------------------------------------------ heartbeat.js
EmptyMap == [s \in {} |-> 0]

markAliveInserts(map, socket) ==
  [s \in (DOMAIN map) \cup {socket} |->
     IF s = socket THEN [isAlive |-> TRUE, lastPingSentAt |-> 0] ELSE map[s]]

\* register(socket, ip): the entry is (re)created alive, stamped with Date.now()
register(map, socket, t) ==
  [s \in (DOMAIN map) \cup {socket} |->
     IF s = socket THEN [isAlive |-> TRUE, lastPingSentAt |-> t] ELSE map[s]]

unregisterAbsentClears(map, socket) ==
  IF socket \in DOMAIN map THEN [s \in (DOMAIN map) \ {socket} |-> map[s]] ELSE EmptyMap

\* unregister(socket): clientMap.delete(socket)
unregister(map, socket) == [s \in (DOMAIN map) \ {socket} |-> map[s]]

markAliveIgnored(map, socket) == map

\* markAlive(socket): only an existing entry is touched
markAlive(map, socket) ==
  IF socket \in DOMAIN map THEN [map EXCEPT ![socket].isAlive = TRUE] ELSE map

\* the 'pong' listener register() installs
pongListener(map, socket) ==
  IF socket \in DOMAIN map THEN [map EXCEPT ![socket].isAlive = TRUE] ELSE map

IsZombieNoTimeout(entry, t, timeout) == ~entry.isAlive

IsZombieIgnoresAlive(entry, t, timeout) == (t - entry.lastPingSentAt) >= timeout

\* the eviction test of the sweep
IsZombie(entry, t, timeout) ==
  ~entry.isAlive /\ (t - entry.lastPingSentAt) >= timeout

\* the sockets one sweep deletes and terminates.  The callback reads Date.now()
\* itself, and setInterval does not run on that clock: a callback due at t may
\* read a time less than `interval` after the reading of the previous callback,
\* by less than one time unit.  short: it did; an entry stamped by the previous
\* callback exactly `timeout` before t then fails the test of the elapsed time
zombies(map, t, short, timeout) ==
  {s \in DOMAIN map : /\ IsZombie(map[s], t, timeout)
                      /\ ~(short /\ t - map[s].lastPingSentAt = timeout)}

\* the registry after one sweep: zombies deleted, the rest marked pending
sweep(map, t, short, timeout) ==
  [s \in (DOMAIN map) \ zombies(map, t, short, timeout) |->
     [isAlive |-> FALSE, lastPingSentAt |-> t]]

\* ------------------------------------------------------------ JSON
\* The payloads clients send.  JSON.parse / JSON.stringify are modelled on this
\* set by their results: insignificant whitespace is dropped by the round trip.
PingText == "{\"type\":\"ping\"}"
PingSpaced == "{ \"type\": \"ping\" }"
PingExtra == "{\"type\":\"ping\",\"seq\":1}"
PongText == "{\"type\":\"pong\"}"
ChatText == "{\"type\":\"chat\"}"
ChatSpaced == "{ \"type\" : \"chat\" }"
NullText == "null"
PlainText == "hello"

Payloads == {PingText, PingSpaced, PingExtra, ChatSpaced, NullText, PlainText}

\* JSON.parse(rawStr): ok = FALSE when it throws
JSONparse(raw) ==
  CASE raw \in {PingText, PingSpaced} ->
         [ok |-> TRUE, kind |-> "object", type |-> "ping", extra |-> FALSE]
    [] raw = PingExtra ->
         [ok |-> TRUE, kind |-> "object", type |-> "ping", extra |-> TRUE]
    [] raw \in {ChatText, ChatSpaced} ->
         [ok |-> TRUE, kind |-> "object", type |-> "chat", extra |-> FALSE]
    [] raw = PongText ->
         [ok |-> TRUE, kind |-> "object", type |-> "pong", extra |-> FALSE]
    [] raw = NullText ->
         [ok |-> TRUE, kind |-> "null", type |-> "undefined", extra |-> FALSE]
    [] OTHER ->
         [ok |-> FALSE, kind |-> "undefined", type |-> "undefined", extra |-> FALSE]

\* JSON.stringify(parsed)
JSONstringify(v) ==
  CASE v.kind = "null" -> NullText
    [] v.kind = "object" /\ v.type = "ping" /\ ~v.extra -> PingText
    [] v.kind = "object" /\ v.type = "ping" /\ v.extra -> PingExtra
    [] v.kind = "object" /\ v.type = "pong" -> PongText
    [] OTHER -> ChatText

\* ------------------------------------------------------------ broadcast.js
\* outgoing: the re-serialised message, or the raw text when parsing throws
normalize(raw) ==
  IF JSONparse(raw).ok THEN JSONstringify(JSONparse(raw)) ELSE raw

\* first forEach: every OPEN client counts, the sender included
totalOnline(cl, rs) == Cardinality({c \in cl : rs[c] = "OPEN"})

skipSenderNever(client, sender) == FALSE

\* if (client === sender) return;
skipSender(client, sender) == client = sender

skipNotOpenNever(state) == FALSE

\* if (client.readyState !== WebSocket.OPEN) return;
skipNotOpen(state) == state # "OPEN"

\* clients.forEach visits in insertion order; nothing modelled here depends on
\* the visiting order, so the set is visited in ascending order.
RECURSIVE ordered(_)
ordered(S) ==
  IF S = {} THEN <<>>
  ELSE LET m == CHOOSE x \in S : \A y \in S : x <= y
       IN <<m>> \o ordered(S \ {m})

RECURSIVE forEachSendAbort(_, _, _, _, _)
forEachSendAbort(order, sender, rs, failing, outgoing) ==
  IF order = <<>> THEN [sends |-> <<>>, sentCount |-> 0, errors |-> 0]
  ELSE LET client == Head(order)
       IN IF skipSender(client, sender) \/ skipNotOpen(rs[client])
          THEN forEachSendAbort(Tail(order), sender, rs, failing, outgoing)
          ELSE IF client \in failing
          THEN [sends |-> <<>>, sentCount |-> 0, errors |-> 1]
          ELSE LET rest == forEachSendAbort(Tail(order), sender, rs, failing, outgoing)
               IN [sends |-> <<[to |-> client, data |-> outgoing]>> \o rest.sends,
                   sentCount |-> rest.sentCount + 1,
                   errors |-> rest.errors]

RECURSIVE forEachSendCountsFailed(_, _, _, _, _)
forEachSendCountsFailed(order, sender, rs, failing, outgoing) ==
  IF order = <<>> THEN [sends |-> <<>>, sentCount |-> 0, errors |-> 0]
  ELSE LET client == Head(order)
           rest == forEachSendCountsFailed(Tail(order), sender, rs, failing, outgoing)
       IN IF skipSender(client, sender) THEN rest
          ELSE IF skipNotOpen(rs[client]) THEN rest
          ELSE IF client \in failing
          THEN [rest EXCEPT !.sentCount = @ + 1, !.errors = @ + 1]
          ELSE [sends |-> <<[to |-> client, data |-> outgoing]>> \o rest.sends,
                sentCount |-> rest.sentCount + 1,
                errors |-> rest.errors]

\* second forEach: one send per OPEN client other than the sender; a send that
\* throws (client \in failing) is logged and the loop goes on
RECURSIVE forEachSend(_, _, _, _, _)
forEachSend(order, sender, rs, failing, outgoing) ==
  IF order = <<>> THEN [sends |-> <<>>, sentCount |-> 0, errors |-> 0]
  ELSE LET client == Head(order)
           rest == forEachSend(Tail(order), sender, rs, failing, outgoing)
       IN IF skipSender(client, sender) THEN rest
          ELSE IF skipNotOpen(rs[client]) THEN rest
          ELSE IF client \in failing
          THEN [rest EXCEPT !.errors = @ + 1]
          ELSE [sends |-> <<[to |-> client, data |-> outgoing]>> \o rest.sends,
                sentCount |-> rest.sentCount + 1,
                errors |-> rest.errors]

\* broadcast({sender, rawData, clients}): what it sent and what it logged
broadcast(sender, raw, cl, rs, failing) ==
  LET out == forEachSend(ordered(cl), sender, rs, failing, normalize(raw))
  IN [kind |-> "relay", sender |-> sender, raw |-> raw,
      sends |-> out.sends, sentCount |-> out.sentCount, errors |-> out.errors,
      totalOnline |-> totalOnline(cl, rs),
      open |-> {c \in cl : rs[c] = "OPEN"},
      failed |-> {c \in failing \ {sender} : rs[c] = "OPEN"}]

\* ------------------------------------------------------------ server.js
isProbeNever(raw) == FALSE

isProbeAnyDecoded(raw) == JSONparse(raw).ok

\* parsed && parsed.type === 'ping'
isProbe(raw) ==
  LET parsed == JSONparse(raw)
  IN parsed.ok /\ parsed.kind # "null" /\ parsed.type = "ping"

\* the reply to an application-layer ping; the send may throw (logged)
replyPong(sender, raw, cl, rs, failing) ==
  [kind |-> "probe", sender |-> sender, raw |-> raw,
   sends |-> IF sender \in failing THEN <<>>
             ELSE <<[to |-> sender, data |-> JSONstringify(JSONparse(PongText))]>>,
   sentCount |-> 0, errors |-> IF sender \in failing THEN 1 ELSE 0,
   totalOnline |-> 0, open |-> {},
   failed |-> failing \cap {sender}]

NoMessage ==
  [kind |-> "none", sender |-> 0, raw |-> "", sends |-> <<>>, sentCount |-> 0,
   errors |-> 0, totalOnline |-> 0, open |-> {}, failed |-> {}]

needLoopbackOnlyWildcard(host) == host # "0.0.0.0"

\* needLoopback of startListeners
needLoopback(host) == host # "0.0.0.0" /\ host # "127.0.0.1" /\ host # "::1"

Listener(addr) == [addr |-> addr, state |-> "binding"]

\* startListeners: the primary listener, then the loopback one when needed
startListeners(host) ==
  IF needLoopback(host)
  THEN <<Listener(host), Listener("127.0.0.1")>>
  ELSE <<Listener(host)>>

\* ------------------------------------------------------------ initial state
Hosts == {"0.0.0.0", "127.0.0.1", "::1", "192.168.1.10", "::", "127.0.0.2", "localhost"}
TlsStates == {"ok", "missing", "unreadable"}

Configs(wsHosts, wssHosts, enabledPairs) ==
  {[ws |-> [enabled |-> e[1], host |-> h1],
    wss |-> [enabled |-> e[2], host |-> h2],
    heartbeat |-> [interval |-> i, timeout |-> t]] :
     e \in enabledPairs, h1 \in wsHosts, h2 \in wssHosts,
     i \in 1..MaxInterval, t \in 1..MaxTimeout}

InitWith(cfgs, tls) ==
  /\ config \in cfgs
  /\ tlsFiles \in tls
  /\ pc = "load"
  /\ exitCode = NoCode
  /\ servers = <<>>
  /\ httpServers = [g \in Groups |-> <<>>]
  /\ wsState = [g \in Groups |-> "NONE"]
  /\ clients = [g \in Groups |-> {}]
  /\ grp = [c \in Conns |-> "NONE"]
  /\ readyState = [c \in Conns |-> "NONE"]
  /\ destroyed = {}
  /\ clientMap = [g \in Groups |-> EmptyMap]
  /\ timer = [g \in Groups |-> FALSE]
  /\ nextTick = [g \in Groups |-> 0]
  /\ now = 0
  /\ signalAt = NoTime
  /\ deadline = NoTime
  /\ stopped = {}
  /\ pendingCount = 0
  /\ httpPending = [g \in Groups |-> 0]
  /\ lastAck = [c \in Conns |-> NoTime]
  /\ evictedAt = [c \in Conns |-> NoTime]
  /\ acks = [c \in Conns |-> 0]
  /\ last = NoMessage
  /\ arrivals = 0
  /\ wire = [c \in Conns |-> <<>>]

\* no message handler is running, so no frame is sent; `last` shows the sends of
\* a message handler until that handler returns
quiet == last = NoMessage /\ last' = NoMessage /\ UNCHANGED wireVars

\* the message handler returns
Return ==
  /\ last # NoMessage
  /\ last' = NoMessage
  /\ UNCHANGED <<cfgVars, procVars, listenVars, connVars, hbVars, now, downVars,
                 obsVars, wireVars>>

enqueueFirst(box, frame) == <<frame>> \o box

\* client.send(frame): the frames of one socket leave in the order of the calls
enqueue(box, frame) == Append(box, frame)

\* the frames of the sends of message n, put on the wires in the order of the calls
RECURSIVE sendAll(_, _, _, _)
sendAll(w, sends, n, from) ==
  IF sends = <<>> THEN w
  ELSE sendAll([w EXCEPT ![Head(sends).to] =
                   enqueue(@, [seq |-> n, from |-> from, data |-> Head(sends).data])],
               Tail(sends), n, from)

\* the message handler returns; what it sent is followed on the wire
ReturnSent ==
  /\ last # NoMessage
  /\ last' = NoMessage
  /\ arrivals' = arrivals + 1
  /\ wire' = sendAll(wire, last.sends, arrivals + 1, last.sender)
  /\ UNCHANGED <<cfgVars, procVars, listenVars, connVars, hbVars, now, downVars,
                 obsVars>>

\* ------------------------------------------------------------ startup
exit(code) == pc' = "exited" /\ exitCode' = code

\* loadConfig(): throws (exit 1) when both protocols are disabled, or when WSS
\* is enabled and a certificate file does not exist
LoadConfig ==
  /\ pc = "load"
  /\ IF (~config.ws.enabled /\ ~config.wss.enabled)
        \/ (config.wss.enabled /\ tlsFiles = "missing")
     THEN exit(1)
     ELSE pc' = "ws" /\ exitCode' = exitCode
  /\ UNCHANGED <<cfgVars, listenVars, connVars, hbVars, now, downVars, obsVars>>
  /\ quiet

\* a group is created and pushed on `servers` before any listener has bound
createGroup(g, host) ==
  /\ wsState' = [wsState EXCEPT ![g] = "RUNNING"]
  /\ httpServers' = [httpServers EXCEPT ![g] = startListeners(host)]
  /\ servers' = Append(servers, g)

\* if (config.ws.enabled) { ... }
StartWS ==
  /\ pc = "ws"
  /\ IF config.ws.enabled
     THEN createGroup("WS", config.ws.host)
     ELSE UNCHANGED listenVars
  /\ pc' = "wss"
  /\ UNCHANGED <<cfgVars, exitCode, connVars, hbVars, now, downVars, obsVars>>
  /\ quiet

\* if (config.wss.enabled) { ... }: unreadable certificates skip the group, or
\* exit(1) when WS is disabled too
StartWSS ==
  /\ pc = "wss"
  /\ IF config.wss.enabled /\ tlsFiles = "unreadable" /\ ~config.ws.enabled
     THEN exit(1) /\ UNCHANGED listenVars
     ELSE /\ pc' = "running"
          /\ exitCode' = exitCode
          /\ IF config.wss.enabled /\ tlsFiles # "unreadable"
             THEN createGroup("WSS", config.wss.host)
             ELSE UNCHANGED listenVars
  /\ UNCHANGED <<cfgVars, connVars, hbVars, now, downVars, obsVars>>
  /\ quiet

\* hbMgr.start(): a second call is ignored
start(g) ==
  IF timer[g]
  THEN UNCHANGED <<timer, nextTick>>
  ELSE /\ timer' = [timer EXCEPT ![g] = TRUE]
       /\ nextTick' = [nextTick EXCEPT ![g] = now + config.heartbeat.interval]

\* the listen callback of listener i; only the primary one starts the heartbeat
BindOk(g, i) ==
  /\ pc = "running"
  /\ i \in 1..Len(httpServers[g])
  /\ httpServers[g][i].state = "binding"
  /\ httpServers' = [httpServers EXCEPT ![g][i].state = "listening"]
  /\ IF i = 1 THEN start(g) ELSE UNCHANGED <<timer, nextTick>>
  /\ UNCHANGED <<cfgVars, procVars, servers, wsState, connVars, clientMap, now,
                 downVars, obsVars>>
  /\ quiet

\* the 'error' event of listener i: the failure is logged, nothing else
BindFail(g, i) ==
  /\ pc = "running"
  /\ i \in 1..Len(httpServers[g])
  /\ httpServers[g][i].state = "binding"
  /\ httpServers' = [httpServers EXCEPT ![g][i].state = "failed"]
  /\ UNCHANGED <<cfgVars, procVars, servers, wsState, connVars, hbVars, now,
                 downVars, obsVars>>
  /\ quiet

\* what keeps the event loop, and so the process, alive: a listener that is
\* binding, listening or closing, a socket, a heartbeat timer, the exit timer.
\* The signal listeners do not
held ==
  \/ \E g \in Groups : \E i \in 1..Len(httpServers[g]) :
        httpServers[g][i].state \in {"binding", "listening", "closing"}
  \/ \E c \in Conns : readyState[c] \in {"OPEN", "CLOSING"}
  \/ \E g \in Groups : timer[g]
  \/ deadline # NoTime

\* the 'error' handlers of the listeners only log: once the last listener has
\* failed nothing is left to run and the process ends by itself, exit code 0,
\* without process.exit and without gracefulShutdown
LoopEmpty ==
  /\ pc = "running"
  /\ ~held
  /\ pc' = "ended"
  /\ exitCode' = 0
  /\ UNCHANGED <<cfgVars, listenVars, connVars, hbVars, now, downVars, obsVars>>
  /\ quiet

\* ------------------------------------------------------------ connections
\* connection identifiers are handed out in order
nextConn == CHOOSE c \in Conns : readyState[c] = "NONE" /\
                                 \A d \in Conns : readyState[d] = "NONE" => c <= d

\* an upgrade on a listening listener of g; a closing WebSocket.Server answers
\* 503 and no connection exists
Accept(g, limit) ==
  /\ pc = "running"
  /\ \E c \in 1..limit : readyState[c] = "NONE"
  /\ \E i \in 1..Len(httpServers[g]) : httpServers[g][i].state = "listening"
  /\ wsState[g] = "RUNNING"
  /\ LET c == nextConn
     IN /\ readyState' = [readyState EXCEPT ![c] = "OPEN"]
        /\ grp' = [grp EXCEPT ![c] = g]
        /\ clients' = [clients EXCEPT ![g] = @ \cup {c}]
        /\ clientMap' = [clientMap EXCEPT ![g] = register(@, c, now)]
        /\ lastAck' = [lastAck EXCEPT ![c] = now]
        /\ acks' = [acks EXCEPT ![c] = 0]
  /\ UNCHANGED <<cfgVars, procVars, listenVars, destroyed, timer, nextTick, now,
                 downVars, evictedAt>>
  /\ quiet

bump(n) == IF n >= 2 THEN 2 ELSE n + 1

\* an acknowledgment of a registered connection is noted
noteAck(c) ==
  IF c \in DOMAIN clientMap[grp[c]]
  THEN /\ lastAck' = [lastAck EXCEPT ![c] = now]
       /\ acks' = [acks EXCEPT ![c] = bump(@)]
  ELSE UNCHANGED <<lastAck, acks>>

\* a pong frame of connection c; frames still buffered are delivered while a
\* terminated socket closes
Pong(c) ==
  /\ pc = "running"
  /\ readyState[c] = "OPEN" \/ c \in destroyed
  /\ clientMap' = [clientMap EXCEPT ![grp[c]] = pongListener(@, c)]
  /\ noteAck(c)
  /\ UNCHANGED <<cfgVars, procVars, listenVars, connVars, timer, nextTick, now,
                 downVars, evictedAt>>
  /\ quiet

wssClientsOfAll(c) == UNION {clients[g] : g \in Groups}

\* wss.clients in the connection handler of c: the clients of c's own acceptor
wssClients(c) == clients[grp[c]]

\* the 'message' handler of socket c: an application-layer ping is answered,
\* anything else is relayed.  failing: the sockets whose send() throws in it
onMessage(c, raw, failing) ==
  /\ pc = "running"
  /\ last = NoMessage
  /\ failing \subseteq wssClients(c)
  /\ isProbe(raw) => failing \subseteq {c}
  /\ IF isProbe(raw)
     THEN /\ clientMap' = [clientMap EXCEPT ![grp[c]] = markAlive(@, c)]
          /\ noteAck(c)
          /\ last' = replyPong(c, raw, wssClients(c), readyState, failing)
     ELSE /\ last' = broadcast(c, raw, wssClients(c), readyState, failing)
          /\ UNCHANGED <<clientMap, lastAck, acks>>
  /\ UNCHANGED <<cfgVars, procVars, listenVars, connVars, timer, nextTick, now,
                 downVars, evictedAt, wireVars>>

\* socket.on('message') of an open socket
Message(c, raw, failing) == readyState[c] = "OPEN" /\ onMessage(c, raw, failing)

\* socket.on('message') of a terminated socket that is closing: a frame received
\* before the socket was terminated is still delivered to the handler
LateMessage(c, raw) ==
  readyState[c] = "CLOSING" /\ c \in destroyed /\ onMessage(c, raw, {})

\* socket.on('error'): the socket is closing when the event is emitted, and it
\* stays so until the peer ends the connection
SocketError(c) ==
  /\ pc = "running"
  /\ readyState[c] = "OPEN"
  /\ readyState' = [readyState EXCEPT ![c] = "CLOSING"]
  /\ clientMap' = [clientMap EXCEPT ![grp[c]] = unregister(@, c)]
  /\ UNCHANGED <<cfgVars, procVars, listenVars, clients, grp, destroyed, timer,
                 nextTick, now, downVars, obsVars>>
  /\ quiet

\* the close frame of the peer of c arrives: the socket is closing, no handler of
\* server.js runs; it stays in wss.clients and in the registry until its
\* connection ends
CloseFrame(c) ==
  /\ pc = "running"
  /\ readyState[c] = "OPEN"
  /\ readyState' = [readyState EXCEPT ![c] = "CLOSING"]
  /\ UNCHANGED <<cfgVars, procVars, listenVars, clients, grp, destroyed, hbVars, now,
                 downVars, obsVars>>
  /\ quiet

\* socket.on('close'): the connection ended (the client went away, or the socket
\* was terminated); the WebSocket.Server drops it from `clients`
Close(c) ==
  /\ pc = "running"
  /\ readyState[c] \in {"OPEN", "CLOSING"}
  /\ readyState' = [readyState EXCEPT ![c] = "CLOSED"]
  /\ destroyed' = destroyed \ {c}
  /\ clients' = [clients EXCEPT ![grp[c]] = @ \ {c}]
  /\ clientMap' = [clientMap EXCEPT ![grp[c]] = unregister(@, c)]
  /\ UNCHANGED <<cfgVars, procVars, listenVars, grp, timer, nextTick, now,
                 downVars, obsVars>>
  /\ quiet

\* socket.terminate() on every socket of S: the readyState
terminated(rs, S) ==
  [c \in Conns |-> IF c \in S /\ rs[c] = "OPEN" THEN "CLOSING" ELSE rs[c]]

\* socket.terminate() on every socket of S: the connection of a socket that is
\* open or closing is destroyed
destroy(d, rs, S) == d \cup {c \in S : rs[c] \in {"OPEN", "CLOSING"}}

\* ------------------------------------------------------------ heartbeat timer
\* the registry, the sockets and the timer after one run of the setInterval
\* callback of group g; short: its reading of the clock, see zombies (a short
\* reading shows only where an exact one finds a zombie)
sweepAll(g, short) ==
  /\ pc = "running"
  /\ timer[g]
  /\ now = nextTick[g]
  /\ short => \E s \in DOMAIN clientMap[g] : s \in zombies(clientMap[g], now, FALSE,
                                                           config.heartbeat.timeout)
  /\ LET z == zombies(clientMap[g], now, short, config.heartbeat.timeout)
     IN /\ clientMap' = [clientMap EXCEPT
                           ![g] = sweep(@, now, short, config.heartbeat.timeout)]
        /\ readyState' = terminated(readyState, z)
        /\ destroyed' = destroy(destroyed, readyState, z)
        /\ evictedAt' = [c \in Conns |-> IF c \in z THEN now ELSE evictedAt[c]]
        /\ acks' = [c \in Conns |-> IF c \in DOMAIN clientMap[g] THEN 0 ELSE acks[c]]
  /\ nextTick' = [nextTick EXCEPT ![g] = now + config.heartbeat.interval]
  /\ UNCHANGED <<cfgVars, procVars, listenVars, clients, grp, timer, now, downVars,
                 lastAck>>

\* one run of the setInterval callback of group g
Tick(g) == \E short \in BOOLEAN : sweepAll(g, short) /\ quiet

\* the sockets one sweep pings: the entries it keeps whose socket is OPEN
pinged(map, rs, t, short, timeout) ==
  {s \in (DOMAIN map) \ zombies(map, t, short, timeout) : rs[s] = "OPEN"}

RECURSIVE pingAllAbort(_, _)
pingAllAbort(order, failing) ==
  IF order = <<>> THEN [sends |-> <<>>, errors |-> 0]
  ELSE IF Head(order) \in failing
  THEN [sends |-> <<>>, errors |-> 1]
  ELSE LET rest == pingAllAbort(Tail(order), failing)
       IN [rest EXCEPT !.sends = <<[to |-> Head(order), data |-> "ping"]>> \o @]

\* socket.ping() on each of them in turn; a ping that throws (socket \in failing)
\* is logged as an error and the sweep goes on
RECURSIVE pingAll(_, _)
pingAll(order, failing) ==
  IF order = <<>> THEN [sends |-> <<>>, errors |-> 0]
  ELSE LET rest == pingAll(Tail(order), failing)
       IN IF Head(order) \in failing
          THEN [rest EXCEPT !.errors = @ + 1]
          ELSE [rest EXCEPT !.sends = <<[to |-> Head(order), data |-> "ping"]>> \o @]

\* what one sweep sent and logged
probeReport(map, rs, t, short, timeout, failing) ==
  LET out == pingAll(ordered(pinged(map, rs, t, short, timeout)), failing)
  IN [kind |-> "sweep", sender |-> 0, raw |-> "", sends |-> out.sends,
      sentCount |-> Len(out.sends), errors |-> out.errors, totalOnline |-> 0,
      open |-> pinged(map, rs, t, short, timeout),
      failed |-> failing \cap pinged(map, rs, t, short, timeout)]

\* one run of the setInterval callback of group g, its pings and its error log
\* followed.  failing: the sockets whose ping() throws
TickProbing(g, failing) ==
  \E short \in BOOLEAN :
    /\ sweepAll(g, short)
    /\ failing \subseteq pinged(clientMap[g], readyState, now, short,
                                config.heartbeat.timeout)
    /\ last = NoMessage
    /\ last' = probeReport(clientMap[g], readyState, now, short,
                           config.heartbeat.timeout, failing)
    /\ UNCHANGED wireVars

\* ------------------------------------------------------------ shutdown
active == {servers[k] : k \in 1..Len(servers)}

\* setTimeout(() => process.exit(1), 5000)
armDeadline(t) == t + GracePeriod

stopAllKeepsRegistry(map) == map

\* hbMgr.stop() of the manager of group g: clientMap.clear() on the map of its
\* own closure
stop(map, g) == [map EXCEPT ![g] = EmptyMap]

\* hbMgr.stop() of every group of `servers`
stopAll(map) == [g \in Groups |-> IF g \in active THEN stop(map, g)[g] ELSE map[g]]

terminateNone(rs) == rs

\* wsServer.clients.forEach(client => client.terminate()) of every group
terminateAll(rs) == terminated(rs, UNION {clients[g] : g \in active})

\* the connections those terminate() calls destroy
destroyAll(d) == destroy(d, readyState, UNION {clients[g] : g \in active})

\* wsServer.close(cb) of every group: a running acceptor starts closing; on one
\* that is closing or closed the callback is only queued
closeAll(ws) ==
  [g \in Groups |-> IF g \in active /\ ws[g] = "RUNNING" THEN "CLOSING" ELSE ws[g]]

\* gracefulShutdown(signal), at every SIGINT or SIGTERM.  Each run has a
\* pendingCount, httpPending counters and an exit timer of its own.  A later run
\* registers each of its callbacks behind the first run's callback on the same
\* emitter and arms its timer later, so neither its counters nor its timer end
\* the process before those of the first run: the first run's are followed
Signal ==
  /\ pc = "running"
  /\ held
  /\ IF signalAt = NoTime
     THEN signalAt' = now /\ pendingCount' = Len(servers)
     ELSE UNCHANGED <<signalAt, pendingCount>>
  /\ IF Len(servers) = 0
     THEN /\ exit(0)
          /\ UNCHANGED <<timer, clientMap, stopped, readyState, destroyed, wsState,
                         deadline>>
     ELSE /\ UNCHANGED procVars
          /\ timer' = [g \in Groups |-> IF g \in active THEN FALSE ELSE timer[g]]
          /\ clientMap' = stopAll(clientMap)
          /\ stopped' = active
          /\ readyState' = terminateAll(readyState)
          /\ destroyed' = destroyAll(destroyed)
          /\ wsState' = closeAll(wsState)
          /\ deadline' = IF signalAt = NoTime THEN armDeadline(now) ELSE deadline
  /\ UNCHANGED <<cfgVars, servers, httpServers, clients, grp, nextTick, now,
                 httpPending, obsVars>>
  /\ quiet

WsClosedAtOnce(g) ==
  /\ pc = "running"
  /\ wsState[g] = "CLOSING"
  /\ wsState' = [wsState EXCEPT ![g] = "CLOSED"]
  /\ httpPending' = [httpPending EXCEPT ![g] = Len(httpServers[g])]
  /\ httpServers' = [httpServers EXCEPT
                       ![g] = [i \in 1..Len(@) |-> [@[i] EXCEPT !.state = "closing"]]]
  /\ UNCHANGED <<cfgVars, procVars, servers, connVars, hbVars, now, signalAt,
                 deadline, stopped, pendingCount, obsVars>>
  /\ quiet

\* the callback of wsServer.close(): it runs once the server has no client left,
\* and asks every listener of the group to close
WsClosed(g) ==
  /\ pc = "running"
  /\ wsState[g] = "CLOSING"
  /\ clients[g] = {}
  /\ wsState' = [wsState EXCEPT ![g] = "CLOSED"]
  /\ httpPending' = [httpPending EXCEPT ![g] = Len(httpServers[g])]
  /\ httpServers' = [httpServers EXCEPT
                       ![g] = [i \in 1..Len(@) |-> [@[i] EXCEPT !.state = "closing"]]]
  /\ UNCHANGED <<cfgVars, procVars, servers, connVars, hbVars, now, signalAt,
                 deadline, stopped, pendingCount, obsVars>>
  /\ quiet

groupDoneAlways(n) == TRUE

\* if (httpPending === 0)
groupDone(n) == n = 0

\* the callback of srv.close() of listener i; it may never run
HttpClosed(g, i) ==
  /\ pc = "running"
  /\ i \in 1..Len(httpServers[g])
  /\ httpServers[g][i].state = "closing"
  /\ httpServers' = [httpServers EXCEPT ![g][i].state = "closed"]
  /\ httpPending' = [httpPending EXCEPT ![g] = @ - 1]
  /\ IF groupDone(httpPending[g] - 1)
     THEN /\ pendingCount' = pendingCount - 1
          /\ IF pendingCount - 1 = 0 THEN exit(0) ELSE UNCHANGED procVars
     ELSE UNCHANGED <<pendingCount, procVars>>
  /\ UNCHANGED <<cfgVars, servers, wsState, connVars, hbVars, now, signalAt,
                 deadline, stopped, obsVars>>
  /\ quiet

\* the forced-exit timer
Deadline ==
  /\ pc = "running"
  /\ deadline # NoTime
  /\ now = deadline
  /\ exit(1)
  /\ UNCHANGED <<cfgVars, listenVars, connVars, hbVars, now, downVars, obsVars>>
  /\ quiet

\* ------------------------------------------------------------ time
\* callbacks already queued on the loop run before any timer can expire: the
\* end of a process whose loop is empty, the 'close' event of a destroyed
\* connection, the callback of a WebSocket.Server that closes without clients.
\* A socket closing after an error or after its peer's close frame waits for the
\* peer: time passes
urgent ==
  \/ ~held
  \/ destroyed # {}
  \/ \E g \in Groups : wsState[g] = "CLOSING" /\ clients[g] = {}

\* one second passes; a due timer fires first
Advance(horizon) ==
  /\ pc = "running"
  /\ ~urgent
  /\ \A g \in Groups : timer[g] => now < nextTick[g]
  /\ deadline # NoTime => now < deadline
  /\ IF signalAt = NoTime THEN now < horizon ELSE now < signalAt + GracePeriod + 1
  /\ now' = now + 1
  /\ UNCHANGED <<cfgVars, procVars, listenVars, connVars, hbVars, downVars,
                 obsVars>>
  /\ quiet

\* ------------------------------------------------------------ specifications
Startup == LoadConfig \/ StartWS \/ StartWSS

Binding == \E g \in Groups, i \in 1..2 : BindOk(g, i) \/ BindFail(g, i)

\* the heartbeat of one plaintext group: every interval/timeout pair
InitHeartbeat ==
  InitWith(Configs({"0.0.0.0"}, {"0.0.0.0"}, {<<TRUE, FALSE>>}), {"ok"})

NextHeartbeat ==
  \/ Startup
  \/ Binding
  \/ LoopEmpty
  \/ \E g \in Groups : Accept(g, MaxTimedConns)
  \/ \E c \in Conns : Pong(c)
  \/ \E c \in Conns : Message(c, PingText, {})
  \/ Return
  \/ \E c \in Conns : Close(c)
  \/ \E g \in Groups : Tick(g)
  \/ Advance(MaxTime)

SpecHeartbeat == InitHeartbeat /\ [][NextHeartbeat]_vars

\* the relay: both groups, every payload, every set of failing sends
InitRelay ==
  InitWith({c \in Configs({"0.0.0.0"}, {"0.0.0.0"}, {<<TRUE, TRUE>>}) :
              c.heartbeat = [interval |-> 1, timeout |-> 1]}, {"ok"})

NextRelay ==
  \/ Startup
  \/ \E g \in Groups : BindOk(g, 1)
  \/ \E g \in Groups : Accept(g, MaxConns)
  \/ \E c \in Conns, raw \in Payloads, failing \in SUBSET Conns : Message(c, raw, failing)
  \/ Return
  \/ \E c \in Conns : SocketError(c)
  \/ \E c \in Conns : Close(c)

SpecRelay == InitRelay /\ [][NextRelay]_vars

\* startup: every configuration
InitStartup ==
  InitWith({c \in Configs(Hosts, Hosts, BOOLEAN \X BOOLEAN) :
              c.heartbeat = [interval |-> 1, timeout |-> 1]}, TlsStates)

NextStartup ==
  \/ Startup
  \/ Binding
  \/ LoopEmpty

SpecStartup == InitStartup /\ [][NextStartup]_vars

\* the life of the process, from startup to exit
InitLife ==
  InitWith({c \in Configs({"192.168.1.10"}, {"0.0.0.0"}, BOOLEAN \X BOOLEAN) :
              c.heartbeat = [interval |-> 1, timeout |-> 1]}, TlsStates)

Next ==
  \/ Startup
  \/ Binding
  \/ LoopEmpty
  \/ \E g \in Groups : Accept(g, MaxTimedConns)
  \/ \E c \in Conns : CloseFrame(c)
  \/ \E c \in Conns : Close(c)
  \/ \E g \in Groups : Tick(g)
  \/ Signal
  \/ \E g \in Groups : WsClosed(g)
  \/ \E g \in Groups, i \in 1..2 : HttpClosed(g, i)
  \/ Deadline
  \/ Advance(MaxUptime)

Spec == InitLife /\ [][Next]_vars

\* the order of the frames: messages of several senders, one after the other
NextOrder ==
  \/ Startup
  \/ \E g \in Groups : BindOk(g, 1)
  \/ \E g \in Groups : Accept(g, MaxConns)
  \/ \E c \in Conns, raw \in {ChatSpaced, PlainText, PingText} :
       arrivals < MaxMessages /\ Message(c, raw, {})
  \/ ReturnSent
  \/ \E c \in Conns : Close(c)

SpecOrder == InitRelay /\ [][NextOrder]_vars

\* the probes of the sweep: every interval/timeout pair, every set of failing pings
NextProbe ==
  \/ Startup
  \/ \E g \in Groups : BindOk(g, 1)
  \/ \E g \in Groups : Accept(g, MaxTimedConns)
  \/ \E c \in Conns : SocketError(c)
  \/ \E c \in Conns : CloseFrame(c)
  \/ \E c \in Conns : Close(c)
  \/ \E g \in Groups, failing \in SUBSET Conns : TickProbing(g, failing)
  \/ Return
  \/ Advance(MaxTime)

SpecProbe == InitHeartbeat /\ [][NextProbe]_vars

\* acknowledgments that arrive late: for connections evicted, deregistered or
\* cleared by stop
InitLate ==
  InitWith({c \in Configs({"0.0.0.0"}, {"0.0.0.0"}, {<<TRUE, FALSE>>}) :
              c.heartbeat = [interval |-> 1, timeout |-> 1]}, {"ok"})

NextLate ==
  \/ Startup
  \/ \E g \in Groups : BindOk(g, 1)
  \/ \E g \in Groups : Accept(g, MaxTimedConns)
  \/ \E c \in Conns : (\A g \in Groups : c \notin DOMAIN clientMap[g]) /\ Pong(c)
  \/ \E c \in Conns : LateMessage(c, PingText)
  \/ Return
  \/ \E c \in Conns : SocketError(c)
  \/ \E c \in Conns : CloseFrame(c)
  \/ \E c \in Conns : Close(c)
  \/ \E g \in Groups : Tick(g)
  \/ Signal
  \/ \E g \in Groups : WsClosed(g)
  \/ \E g \in Groups : HttpClosed(g, 1)
  \/ Deadline
  \/ Advance(MaxUptime)

SpecLate == InitLate /\ [][NextLate]_vars

\* one group whose connections close in every way: at once, after an error, after
\* the close frame of a peer that keeps its connection open, by an eviction
NextMembers ==
  \/ Startup
  \/ \E g \in Groups : BindOk(g, 1)
  \/ \E g \in Groups : Accept(g, MaxConns)
  \/ \E c \in Conns : Message(c, ChatSpaced, {})
  \/ Return
  \/ \E c \in Conns : SocketError(c)
  \/ \E c \in Conns : CloseFrame(c)
  \/ \E c \in Conns : Close(c)
  \/ \E g \in Groups : Tick(g)
  \/ Advance(MaxUptime)

SpecMembers == InitLate /\ [][NextMembers]_vars

\* two groups side by side, each with its own acceptor, registry and timer:
\* connections, messages, errors, close frames, ticks and the shutdown that stops
\* both heartbeat managers
InitGroups ==
  InitWith({c \in Configs({"0.0.0.0"}, {"0.0.0.0"}, {<<TRUE, TRUE>>}) :
              c.heartbeat = [interval |-> 1, timeout |-> 1]}, {"ok"})

NextGroups ==
  \/ Startup
  \/ \E g \in Groups : BindOk(g, 1)
  \/ \E g \in Groups : Accept(g, MaxTimedConns)
  \/ \E c \in Conns : Message(c, ChatSpaced, {})
  \/ Return
  \/ \E c \in Conns : SocketError(c)
  \/ \E c \in Conns : CloseFrame(c)
  \/ \E c \in Conns : Close(c)
  \/ \E g \in Groups : Tick(g)
  \/ Signal
  \/ \E g \in Groups : WsClosed(g)
  \/ \E g \in Groups : HttpClosed(g, 1)
  \/ Deadline
  \/ Advance(MaxUptime)

SpecGroups == InitGroups /\ [][NextGroups]_vars

\* ------------------------------------------------------------ heartbeat claims
registered(c) == grp[c] # "NONE" /\ c \in DOMAIN clientMap[grp[c]]

interval == config.heartbeat.interval
timeout == config.heartbeat.timeout

\* C1: a registered connection that stays open and never acknowledges is evicted
\* no later than interval + timeout + one tick after its last acknowledgment:
\* no connection is still registered and open later than that.
C1_EvictedInTime ==
  \A c \in Conns :
    (registered(c) /\ readyState[c] = "OPEN")
      => now - lastAck[c] <= interval + timeout + interval

\* C2 as stated: an eviction never comes earlier than interval + timeout after
\* the last acknowledgment (or the registration).
C2_FloorIntervalPlusTimeout ==
  \A c \in Conns :
    evictedAt[c] # NoTime => evictedAt[c] - lastAck[c] >= interval + timeout

\* C2 amended: an eviction never comes earlier than timeout after the last
\* acknowledgment (or the registration).
C2_FloorTimeout ==
  \A c \in Conns :
    evictedAt[c] # NoTime => evictedAt[c] - lastAck[c] >= timeout

\* an eviction that came earlier than interval + timeout after the last
\* acknowledgment
C2_Witness ==
  \E c \in Conns :
    /\ evictedAt[c] # NoTime
    /\ lastAck[c] > 0
    /\ evictedAt[c] - lastAck[c] < interval + timeout

\* C6: marking a registered connection alive one or more times between two ticks
\* leaves it alive, and the next tick does not evict it.
C6_MarkAliveIdempotent ==
  /\ [](\A c \in Conns :
          (registered(c) /\ acks[c] >= 1) => clientMap[grp[c]][c].isAlive)
  /\ [][\A g \in Groups :
          Tick(g) => \A c \in DOMAIN clientMap[g] :
                       acks[c] >= 1 => /\ c \in DOMAIN clientMap'[g]
                                       /\ readyState'[c] = readyState[c]
                                       /\ evictedAt'[c] = NoTime]_vars

\* a connection marked alive more than once by application-layer pings since a
\* tick that left it pending
C6_Witness ==
  \E c \in Conns :
    /\ registered(c)
    /\ acks[c] = 2
    /\ last.kind = "probe" /\ last.sender = c
    /\ clientMap[grp[c]][c].isAlive
    /\ clientMap[grp[c]][c].lastPingSentAt > 0
    /\ lastAck[c] > clientMap[grp[c]][c].lastPingSentAt

\* ------------------------------------------------------------ relay claims
recipients == {last.sends[k].to : k \in 1..Len(last.sends)}

sendsTo(c) == Cardinality({k \in 1..Len(last.sends) : last.sends[k].to = c})

\* C3: the sender of a broadcast is never among the connections it is sent to.
C3_NoEcho ==
  last.kind = "relay" => last.sender \notin recipients

\* a broadcast from an open sender that reached two other connections
C3_Witness ==
  /\ last.kind = "relay"
  /\ last.sender \in last.open
  /\ Cardinality(recipients) >= 2

\* C4: a relayed message is sent, normalized and exactly once, to every connection
\* of the sender's group other than the sender that is open at broadcast time and
\* whose send does not fail, and to no other; forwardedCount counts those sends.
C4_FanOutComplete ==
  last.kind = "relay" =>
    /\ \A c \in Conns :
         sendsTo(c) = IF c \in last.open \ ({last.sender} \cup last.failed) THEN 1 ELSE 0
    /\ \A k \in 1..Len(last.sends) :
         /\ last.sends[k].data =
              (IF JSONparse(last.raw).ok THEN JSONstringify(JSONparse(last.raw))
                                         ELSE last.raw)
         /\ grp[last.sends[k].to] = grp[last.sender]
    /\ \A c \in last.open : grp[c] = grp[last.sender]
    /\ last.sentCount = Len(last.sends)
    /\ last.errors = Cardinality(last.failed)

\* a broadcast of a re-serialised payload to two open connections of the group:
\* one send failed, the other went through
C4_Witness ==
  /\ last.kind = "relay"
  /\ last.raw = ChatSpaced
  /\ Cardinality(last.failed) = 1
  /\ last.sentCount = 1
  /\ last.sends[1].data = ChatText

ExactPing == {PingText, PingSpaced}

\* C5 as stated: a message that is exactly the probe is never relayed, and its
\* sender receives exactly one pong.
C5_ExactlyOnePong ==
  (last.kind # "none" /\ last.raw \in ExactPing) =>
    /\ last.kind = "probe"
    /\ last.sends = <<[to |-> last.sender, data |-> PongText]>>

\* C5 amended: a message that is exactly the probe is never relayed; its sender is
\* sent one pong, which it receives unless that send throws (the failure is
\* logged); nothing else is sent.
C5_ProbeExcluded ==
  (last.kind # "none" /\ last.raw \in ExactPing) =>
    /\ last.kind = "probe"
    /\ last.sentCount = 0
    /\ recipients \subseteq {last.sender}
    /\ last.sends = IF last.sender \in last.failed
                    THEN <<>>
                    ELSE <<[to |-> last.sender, data |-> PongText]>>
    /\ last.errors = IF last.sender \in last.failed THEN 1 ELSE 0

\* a probe answered with one pong while another connection of the group is open
C5_Witness ==
  /\ last.kind = "probe"
  /\ last.raw = PingSpaced
  /\ Len(last.sends) = 1
  /\ \E c \in Conns : /\ c # last.sender
                      /\ grp[c] = grp[last.sender]
                      /\ readyState[c] = "OPEN"

\* ------------------------------------------------------------ lifecycle claims
signalled == signalAt # NoTime

listeners(g) == {httpServers[g][i] : i \in 1..Len(httpServers[g])}

\* C7: after a shutdown signal every open connection of every active group is
\* terminated, every listener of every group has been asked to close once the
\* queued close events have run, and the process exits no later than the grace
\* period after the signal, with a non-zero code when the deadline forces it.
C7_ShutdownComplete ==
  signalled =>
    /\ \A c \in Conns : readyState[c] # "OPEN"
    /\ \A g \in active : wsState[g] \in {"CLOSING", "CLOSED"}
    /\ (pc = "exited" \/ ~urgent) =>
         \A g \in active : \A l \in listeners(g) : l.state \in {"closing", "closed"}
    /\ now - signalAt <= GracePeriod
    /\ (pc = "exited" /\ pendingCount > 0) => exitCode = 1

\* a forced exit: two groups, connections terminated, one close callback hung
C7_Witness ==
  /\ signalled
  /\ pc = "exited"
  /\ exitCode = 1
  /\ now = signalAt + GracePeriod
  /\ Len(servers) = 2
  /\ \E c \in Conns : readyState[c] = "CLOSED" /\ evictedAt[c] = NoTime
  /\ \E g \in active : \E l \in listeners(g) : l.state = "closing"
  /\ \E g \in active : \A l \in listeners(g) : l.state = "closed"

\* C8: the process exits with code 0 only after a shutdown in which every group
\* had its heartbeat stopped, its connections closed, its upgrade acceptor closed
\* and every one of its listeners closed.
C8_CleanExitOnlyWhenClosed ==
  (pc = "exited" /\ exitCode = 0) =>
    /\ signalled
    /\ \A c \in Conns : readyState[c] \in {"NONE", "CLOSED"}
    /\ \A g \in active :
         /\ g \in stopped
         /\ clientMap[g] = EmptyMap
         /\ clients[g] = {}
         /\ wsState[g] = "CLOSED"
    /\ \A g \in Groups : \A l \in listeners(g) : l.state = "closed"

\* a clean exit of two groups, one of them with two listeners, after a connection
C8_Witness ==
  /\ pc = "exited"
  /\ exitCode = 0
  /\ Len(servers) = 2
  /\ \E g \in active : Len(httpServers[g]) = 2
  /\ \E c \in Conns : readyState[c] = "CLOSED"

\* what the claims call a wildcard address and a loopback address
IsWildcardAddress(host) == host \in {"0.0.0.0", "::"}
IsLoopbackAddress(host) == host \in {"127.0.0.1", "::1", "127.0.0.2", "localhost"}

hostOf(g) == IF g = "WS" THEN config.ws.host ELSE config.wss.host

\* C9 as stated: the configured address is bound, and 127.0.0.1 is bound as well
\* exactly when the configured address is neither a wildcard nor a loopback address.
C9_SecondIffNotWildcardOrLoopback ==
  \A g \in active :
    /\ httpServers[g][1].addr = hostOf(g)
    /\ Len(httpServers[g]) = 2
         <=> ~(IsWildcardAddress(hostOf(g)) \/ IsLoopbackAddress(hostOf(g)))

\* C9 amended: the configured address is bound, and 127.0.0.1 is bound as well
\* exactly when the configured address is none of 0.0.0.0, 127.0.0.1 and ::1.
C9_SecondIffNotListed ==
  \A g \in active :
    /\ Len(httpServers[g]) \in {1, 2}
    /\ httpServers[g][1].addr = hostOf(g)
    /\ Len(httpServers[g]) = 2 <=> hostOf(g) \notin {"0.0.0.0", "127.0.0.1", "::1"}
    /\ Len(httpServers[g]) = 2 => httpServers[g][2].addr = "127.0.0.1"

\* 192.168.1.10 with two listeners beside 0.0.0.0 with one
C9_Witness ==
  /\ Len(servers) = 2
  /\ config.ws.host = "192.168.1.10"
  /\ config.wss.host = "0.0.0.0"
  /\ Len(httpServers["WS"]) = 2
  /\ httpServers["WS"][2].state = "listening"
  /\ Len(httpServers["WSS"]) = 1

\* C10: when the primary listener of a group fails to bind, the process exits
\* fatally if no other group is active; otherwise the group is not an active
\* group and has no connection.
C10_PrimaryBindFailure ==
  \A g \in Groups :
    (Len(httpServers[g]) >= 1 /\ httpServers[g][1].state = "failed") =>
      IF active \ {g} = {}
      THEN pc = "exited" /\ exitCode = 1
      ELSE g \notin active /\ clients[g] = {}

\* C23: from startup until the shutdown signal, whenever a listener of a group,
\* primary or loopback, is listening and every bind of the group has been
\* answered, the heartbeat timer of the group is running, whichever of the
\* group's binds succeeded.
C23_HeartbeatCoverage ==
  \A g \in Groups :
    (/\ pc = "running"
     /\ ~signalled
     /\ \E i \in 1..Len(httpServers[g]) : httpServers[g][i].state = "listening"
     /\ \A i \in 1..Len(httpServers[g]) : httpServers[g][i].state # "binding")
      => timer[g]

\* C14: a connection is evicted (removed from the registry and terminated by the
\* sweep) only when its flag is not-alive and at least timeout has passed since
\* its last probe timestamp; so a connection acknowledged, by a pong or by an
\* application-layer ping, since the previous tick is not evicted, and neither is
\* a connection that no tick has swept since its registration.
C14_NoFalseEviction ==
  [][\A c \in Conns :
       (registered(c) /\ (evictedAt'[c] # evictedAt[c]
                           \/ (c \notin DOMAIN clientMap'[grp[c]]
                                /\ readyState'[c] # "CLOSED")))
         => /\ ~clientMap[grp[c]][c].isAlive
            /\ now - clientMap[grp[c]][c].lastPingSentAt >= timeout
            /\ acks[c] = 0
            /\ clientMap[grp[c]][c].lastPingSentAt > lastAck[c]
                 \/ (clientMap[grp[c]][c].lastPingSentAt = lastAck[c] /\ now > lastAck[c])
            /\ evictedAt'[c] = now
            /\ readyState'[c] = "CLOSING"]_vars

\* a tick evicted one connection and kept another that registered since the
\* previous tick and never acknowledged
C14_Witness ==
  \E c, d \in Conns :
    /\ evictedAt[d] = now /\ readyState[d] = "CLOSING"
    /\ registered(c)
    /\ ~clientMap[grp[c]][c].isAlive
    /\ clientMap[grp[c]][c].lastPingSentAt = now
    /\ lastAck[c] < now /\ lastAck[c] > lastAck[d]

\* ------------------------------------------------------------ shutdown claims
\* C15: in every group of a shutdown the heartbeat manager is stopped before a
\* connection is terminated, every connection is terminated before the upgrade
\* acceptor closes, and a listener is closed only after the acceptor reported
\* closed: no state shows a later step without the earlier ones.
C15_ShutdownStepOrder ==
  /\ \A c \in Conns :
       (signalled /\ readyState[c] = "CLOSING" /\ evictedAt[c] = NoTime)
         => (grp[c] \in stopped /\ clientMap[grp[c]] = EmptyMap)
  /\ \A g \in Groups :
       /\ wsState[g] \in {"CLOSING", "CLOSED"}
            => (g \in stopped /\ \A c \in clients[g] : readyState[c] = "CLOSING")
       /\ wsState[g] = "CLOSED" => clients[g] = {}
       /\ \A l \in listeners(g) :
            l.state \in {"closing", "closed"} => wsState[g] = "CLOSED"

\* one group's listeners are being closed while the other group, stopped, still
\* waits for the close event of a connection it terminated
C15_Witness ==
  \E c \in Conns : \E g \in active :
    /\ signalled
    /\ readyState[c] = "CLOSING" /\ evictedAt[c] = NoTime
    /\ wsState[grp[c]] = "CLOSING"
    /\ g # grp[c]
    /\ wsState[g] = "CLOSED"
    /\ \E l \in listeners(g) : l.state = "closing"
    /\ \E d \in Conns : grp[d] = g /\ readyState[d] = "CLOSED"

\* C16: once a group's heartbeat manager is stopped its registry is empty and
\* stays empty; its timer is cancelled and only a later start() arms it again, and
\* even then no tick sends a probe, evicts or terminates anything; the stop itself
\* evicts nothing.
C16_StoppedStaysQuiet ==
  /\ [](\A g \in stopped : clientMap[g] = EmptyMap)
  /\ [][Signal => /\ evictedAt' = evictedAt
                  /\ \A g \in active : ~timer'[g] /\ clientMap'[g] = EmptyMap]_vars
  /\ [][\A g \in stopped :
          /\ clientMap'[g] = EmptyMap
          /\ (timer'[g] /\ ~timer[g]) => BindOk(g, 1)
          /\ Tick(g) => (readyState' = readyState /\ evictedAt' = evictedAt)]_vars

\* a stopped group whose tick came due with the timer cancelled, after it had a
\* registered connection
C16_Witness ==
  \E c \in Conns :
    /\ grp[c] \in stopped
    /\ readyState[c] = "CLOSED" /\ evictedAt[c] = NoTime
    /\ ~timer[grp[c]]
    /\ nextTick[grp[c]] > 0 /\ now > nextTick[grp[c]]
    /\ pc = "running"

C22_NoResurrection ==
  /\ [](\A g \in Groups : \A c \in Conns :
          c \notin DOMAIN clientMap[g]
            => /\ markAlive(clientMap[g], c) = clientMap[g]
               /\ pongListener(clientMap[g], c) = clientMap[g])
  /\ [][\A c \in Conns :
          (~registered(c) /\ (Pong(c) \/ LateMessage(c, PingText)))
            => clientMap' = clientMap]_vars
  /\ [][\A g \in Groups : \A c \in (DOMAIN clientMap'[g]) \ (DOMAIN clientMap[g]) :
          readyState[c] = "NONE" /\ readyState'[c] = "OPEN"]_vars

\* the handler of an application-layer ping ran for an evicted connection, still
\* closing, while another connection was registered
C22_Witness ==
  \E c, d \in Conns :
    /\ last.kind = "probe" /\ last.sender = c
    /\ readyState[c] = "CLOSING"
    /\ evictedAt[c] # NoTime
    /\ ~registered(c)
    /\ registered(d) /\ grp[d] = grp[c]

\* ------------------------------------------------------------ registry claims
\* C12: deregistering a connection that is absent from the registry changes
\* nothing: the registry, and with it every other connection's liveness record,
\* is the same as after one deregistration, whether the connection left by an
\* error, an eviction or a stop before its close event.
C12_UnregisterIdempotent ==
  /\ [](\A g \in Groups : \A c \in Conns :
          /\ unregister(unregister(clientMap[g], c), c) = unregister(clientMap[g], c)
          /\ c \notin DOMAIN clientMap[g] => unregister(clientMap[g], c) = clientMap[g])
  /\ [][\A c \in Conns :
          (~registered(c) /\ Close(c)) => clientMap' = clientMap]_vars

\* an evicted connection was closed afterwards while another connection of the
\* same registry stayed registered
C12_Witness ==
  \E c, e \in Conns :
    /\ readyState[c] = "CLOSED" /\ evictedAt[c] # NoTime
    /\ grp[e] = grp[c]
    /\ registered(e)

\* C13: within a group the frames a connection is sent are in the order in which
\* the server handled the messages, each message at most once; every frame of a
\* message is sent in that message's handler, before a later message is handled.
C13_OrderPreserved ==
  /\ [](\A c \in Conns : \A i, j \in 1..Len(wire[c]) :
          i < j => wire[c][i].seq < wire[c][j].seq)
  /\ [](\A c \in Conns : \A i \in 1..Len(wire[c]) :
          wire[c][i].seq <= arrivals /\ grp[wire[c][i].from] = grp[c])
  /\ [][wire' # wire =>
          /\ last # NoMessage
          /\ arrivals' = arrivals + 1
          /\ \A c \in Conns :
               \/ wire'[c] = wire[c]
               \/ /\ Len(wire'[c]) = Len(wire[c]) + 1
                  /\ SubSeq(wire'[c], 1, Len(wire[c])) = wire[c]
                  /\ wire'[c][Len(wire'[c])].seq = arrivals']_vars

\* a connection was sent two relayed messages of two different senders
C13_Witness ==
  \E c \in Conns :
    /\ Len(wire[c]) = 2
    /\ wire[c][1].from # wire[c][2].from
    /\ wire[c][1].from # c /\ wire[c][2].from # c
    /\ wire[c][1].data # wire[c][2].data

\* C18 as stated: every message other than exactly the probe, a probe with
\* additional fields included, is handed to the relay and is not answered with a
\* pong.
C18_OnlyExactProbeIntercepted ==
  (last.kind # "none" /\ last.raw \notin ExactPing) =>
    /\ last.kind = "relay"
    /\ \A k \in 1..Len(last.sends) : last.sends[k].to # last.sender

\* C18 amended: every message that does not decode to an object of type "ping"
\* (a payload that does not decode, null, an object of another type) is handed to
\* the relay and is not answered with a pong; an object of type "ping" with
\* additional fields is intercepted like the bare probe: nothing is relayed, and
\* one pong is sent to the sender unless that send throws, which is logged once
\* and leaves the sender with nothing.
C18_OnlyPingTypeIntercepted ==
  /\ (last.kind # "none" /\ last.raw \in {ChatSpaced, NullText, PlainText}) =>
       /\ last.kind = "relay"
       /\ \A k \in 1..Len(last.sends) :
            /\ last.sends[k].to # last.sender
            /\ last.sends[k].data # PongText
            /\ last.sends[k].data =
                 (CASE last.raw = ChatSpaced -> ChatText
                    [] last.raw = NullText -> NullText
                    [] OTHER -> PlainText)
  /\ (last.kind # "none" /\ last.raw = PingExtra) =>
       /\ last.kind = "probe"
       /\ recipients \subseteq {last.sender}
       /\ last.sentCount = 0
       /\ last.sends = IF last.sender \in last.failed
                       THEN <<>>
                       ELSE <<[to |-> last.sender, data |-> PongText]>>
       /\ last.errors = IF last.sender \in last.failed THEN 1 ELSE 0

\* the payload null, which decodes but has no type, relayed to another connection
C18_Witness ==
  /\ last.kind = "relay"
  /\ last.raw = NullText
  /\ \E k \in 1..Len(last.sends) : last.sends[k].data = NullText

\* C20: when the send to one recipient fails during a broadcast, one error is
\* logged for it, it is not counted as forwarded, every other open connection
\* except the sender is still sent the payload, and the failing recipient stays
\* registered and open.
C20_PartialFailureIsolated ==
  (last.kind = "relay" /\ last.failed # {}) =>
    /\ last.errors = Cardinality(last.failed)
    /\ last.sentCount = Cardinality(last.open \ ({last.sender} \cup last.failed))
    /\ last.sentCount + last.errors = Cardinality(last.open \ {last.sender})
    /\ \A c \in last.open \ ({last.sender} \cup last.failed) : c \in recipients
    /\ \A c \in last.failed :
         /\ c \notin recipients
         /\ registered(c)
         /\ readyState[c] = "OPEN"
         /\ c \in clients[grp[last.sender]]

\* a broadcast to two open connections: the send to the first one visited failed
\* and the second one was still sent the payload
C20_Witness ==
  /\ last.kind = "relay"
  /\ Cardinality(last.failed) = 1
  /\ last.errors = 1
  /\ Len(last.sends) = 1
  /\ \A c \in last.failed : c < last.sends[1].to

\* the open members of the heartbeat registry of connection c's group
openMembers(c) == {d \in DOMAIN clientMap[grp[c]] : readyState[d] = "OPEN"}

\* C17: every connection a broadcast is sent to is registered in the heartbeat
\* registry of the sender's group at broadcast time; the connections the
\* broadcast considers are the open members of that registry without the sender.
C17_RecipientsAreMembers ==
  last.kind = "relay" =>
    /\ recipients \subseteq openMembers(last.sender) \ {last.sender}
    /\ last.open \ {last.sender} = openMembers(last.sender) \ {last.sender}
    /\ \A c \in Conns :
         (evictedAt[c] # NoTime \/ ~registered(c)) => c \notin recipients

\* a broadcast reached a registered connection and passed over a connection that
\* is closing after its peer's close frame, still registered and still held by
\* the acceptor
C17_Witness ==
  /\ last.kind = "relay"
  /\ recipients # {}
  /\ \E d \in clients[grp[last.sender]] :
       /\ readyState[d] = "CLOSING"
       /\ registered(d)
       /\ d \notin destroyed
       /\ d \notin recipients

C11_TlsFailureFatalOnlyWithoutWs ==
  (config.wss.enabled /\ tlsFiles # "ok" /\ pc \in {"running", "exited"}) =>
    IF config.ws.enabled
    THEN pc = "running" /\ exitCode = NoCode /\ active = {"WS"}
    ELSE pc = "exited" /\ exitCode = 1

====
